---- MODULE Spec2Model ----
(***************************************************************************)
(* Model of the job crawler (linkedin_crawler.py) and of the sponsor       *)
(* matcher (tfidf_matcher.py).  Both programs share one file,              *)
(* data/database.json: the crawler rewrites it at the end of run_once, the *)
(* matcher rewrites it after a successful batch e-mail.                    *)
(*                                                                         *)
(* Time is counted in ticks; a second holds TicksPerSecond ticks, so that  *)
(* datetime.now() is finer than the "%Y-%m-%d %H:%M:%S" strings kept in    *)
(* the database.  A scraped_date string is modelled by the whole number of *)
(* seconds it denotes.  The fields date_posted and source of a job are     *)
(* never read by either program and are left out of the records.           *)
(***************************************************************************)
EXTENDS Integers, Sequences, FiniteSets, TLC

VARIABLES
    now,            \* the wall clock read by datetime.now(), in ticks
    database,       \* data/database.json: [kind, jobs]
    listing,        \* the job cards the listing site shows
    uscis,          \* data/uscis.xlsx: [kind, names], names being the column
                    \* 'Employer (Petitioner) Name'
    argsort_ties,   \* which of two rows with equal keys the build's quicksort puts first
    pcC,            \* where the crawler process is
    previous_jobs,  \* LinkedInJobCrawler.previous_jobs
    current_jobs,   \* run_once: current_jobs
    new_jobs,       \* run_once: new_jobs (its return value)
    one_hour_ago,   \* run_once: one_hour_ago
    all_jobs,       \* run_once: all_jobs, the list handed to save_jobs
    driver,         \* LinkedInJobCrawler.driver
    pcM,            \* where the matcher script is
    json_data,      \* tfidf_matcher: json_data
    excel_data,     \* tfidf_matcher: excel_data after dropna
    matching_jobs,  \* tfidf_matcher: matching_jobs
    smtp_calls,     \* transport calls made by the running matcher script
    last_call,      \* the most recent transport call: its batch, its outcome, the store
                    \* then, and whether it came after a failed call over the same store
    mailbox,        \* identities of the jobs in e-mails the SMTP server accepted
    unflagged,      \* those of them e-mailed by a run that has not written its flags
    pcM2,           \* where a second matcher script, started while the first runs, is
    json_data2,     \* its json_data
    matching_jobs2, \* its matching_jobs
    sent2           \* what its transport call returned

vars == <<now, database, listing, uscis, argsort_ties, pcC, previous_jobs, current_jobs,
          new_jobs, one_hour_ago, all_jobs, driver, pcM, json_data, excel_data,
          matching_jobs, smtp_calls, last_call, mailbox, unflagged, pcM2, json_data2,
          matching_jobs2, sent2>>

\* what a behaviour is given and never changes
givenVars == <<listing, uscis, argsort_ties>>
crawlerVars == <<pcC, previous_jobs, current_jobs, new_jobs, one_hour_ago, all_jobs, driver>>
matcherVars == <<pcM, json_data, excel_data, matching_jobs, smtp_calls>>
secondVars == <<pcM2, json_data2, matching_jobs2, sent2>>

----------------------------------------------------------------------------
(* Bounds of the model *)

MaxFetch == 2          \* job cards on one fetched page
MaxEpoch == 1          \* the clock runs over the hours 0..MaxEpoch
TicksPerSecond == 2    \* resolution of the clock below one second

(* Program constants *)

Hour == 3600           \* timedelta(hours=1), in seconds
threshold == 60        \* threshold = 0.6, in hundredths

HourTicks == Hour * TicksPerSecond

\* the clock is read on the full hour and one tick past it
Instants == { e * HourTicks + j : e \in 0..MaxEpoch, j \in {0, 1} }

----------------------------------------------------------------------------
(* Time stamps *)

\* datetime.now().strftime("%Y-%m-%d %H:%M:%S"): the sub-second part is dropped
strftime(t) == t \div TicksPerSecond

\* datetime.strptime(s, '%Y-%m-%d %H:%M:%S'): the instant at the start of that second
strptime(s) == s * TicksPerSecond

----------------------------------------------------------------------------
(* The database file *)

AbsentFile == [kind |-> "absent", jobs |-> <<>>]
\* what open(path, 'w') leaves behind before json.dump has written: no valid JSON
TruncatedFile == [kind |-> "corrupt", jobs |-> <<>>]
ListFile(jobs) == [kind |-> "list", jobs |-> jobs]

load_previous_jobs(file) ==
    IF file.kind = "absent" THEN <<>>
    ELSE IF file.kind = "list" THEN file.jobs
    ELSE <<>>

identity(job) == <<job.title, job.company, job.location>>

----------------------------------------------------------------------------
(* The fetched page: job cards as the page shows them *)

Card(t, c, l, u) == [title |-> t, company |-> c, location |-> l, url |-> u]

\* The cards the listing site can show.  A behaviour draws its pages from one
\* of two listings, to keep the pages of one behaviour few.
Listings ==
    { { Card("Data Engineer", "Acme Corp", "NY", "u1"),
        Card("Data Engineer", "Acme Corp", "SF", "u2"),
        Card("Data Manager", "Initech", "NY", "u3") },
      { Card("data engineer", "Acme Corp", "NY", "u6"),
        Card("Data Engineer", "Globex", "NY", "") } }

Pages(cards) == UNION { [1..n -> cards] : n \in 0..MaxFetch }

excluded_keywords == {"5+ years", "4+ years", "manager", "director"}

\* job_title.lower(), for the titles that occur
title_lower(job_title) ==
    CASE job_title = "Data Engineer" -> "data engineer"
      [] job_title = "Data Manager" -> "data manager"
      [] job_title = "ETL Developer" -> "etl developer"
      [] OTHER -> job_title

\* keyword.lower() in title_lower, for the lower-case titles that occur
keyword_in(keyword, lowered) ==
    /\ keyword = "manager"
    /\ lowered = "data manager"

is_job_relevant(job_title) ==
    LET has_keyword == TRUE
        has_excluded == \E keyword \in excluded_keywords :
                            keyword_in(keyword, title_lower(job_title))
    IN  has_keyword /\ ~has_excluded

\* the loop over job_cards of scrape_linkedin_jobs
RECURSIVE scrape_cards(_, _)
scrape_cards(page, t) ==
    IF page = <<>> THEN <<>>
    ELSE LET card == Head(page)
             rest == scrape_cards(Tail(page), t)
         IN  IF ~is_job_relevant(card.title) THEN rest
             ELSE IF card.url = "" THEN rest
             ELSE <<[title |-> card.title, company |-> card.company,
                     location |-> card.location, url |-> card.url,
                     scraped_date |-> strftime(t)]>> \o rest

----------------------------------------------------------------------------
(* The crawler *)

\* is_new_job with the location left out of the comparison
is_new_job_without_location(job, previous) ==
    ~ \E i \in 1..Len(previous) :
        /\ job.title = previous[i].title
        /\ job.company = previous[i].company

is_new_job(job, previous) ==
    ~ \E i \in 1..Len(previous) :
        /\ job.title = previous[i].title
        /\ job.company = previous[i].company
        /\ job.location = previous[i].location

\* job['email_sent'] = False
tag_new(job) == job @@ ("email_sent" :> FALSE)

\* the loop "for job in current_jobs" of run_once
RECURSIVE identify_new(_, _)
identify_new(jobs, previous) ==
    IF jobs = <<>> THEN <<>>
    ELSE IF is_new_job(Head(jobs), previous)
         THEN <<tag_new(Head(jobs))>> \o identify_new(Tail(jobs), previous)
         ELSE identify_new(Tail(jobs), previous)

\* the retention test with > in place of >=
within_window_strict(job, cutoff) == strptime(job.scraped_date) > cutoff

\* the condition of the list comprehension filtered_previous_jobs
within_window(job, cutoff) == strptime(job.scraped_date) >= cutoff

filtered_previous_jobs(previous, cutoff) ==
    SelectSeq(previous, LAMBDA job : within_window(job, cutoff))

\* a failed fetch answered with the cards of an earlier page
StaleJobs ==
    <<[title |-> "Data Engineer", company |-> "Acme Corp", location |-> "SF",
       url |-> "u2", scraped_date |-> 0]>>

\* jobs = [], the list scrape_linkedin_jobs starts from
NoJobs == <<>>

\* LinkedInJobCrawler.__init__: a new crawler process loads the database
CrawlerConstruct ==
    /\ pcC = "idle"
    /\ previous_jobs' = load_previous_jobs(database)
    /\ driver' = "none"
    /\ pcC' = "constructed"
    /\ UNCHANGED <<now, database, givenVars, secondVars, current_jobs, new_jobs, one_hour_ago,
                   all_jobs, matcherVars, last_call, mailbox, unflagged>>

\* run_once, first part: scrape_linkedin_jobs.  The page is the fetcher's
\* answer; when setup_driver or the fetch raises, the except branch drops the
\* driver and the function returns the list it began with, which is empty.
Scrape ==
    /\ pcC = "constructed"
    /\ \E page \in Pages(listing), fetched \in BOOLEAN :
          /\ current_jobs' = IF fetched THEN scrape_cards(page, now) ELSE NoJobs
          /\ driver' = IF fetched THEN "chrome" ELSE "none"
    /\ pcC' = "scraped"
    /\ UNCHANGED <<now, database, givenVars, secondVars, previous_jobs, new_jobs, one_hour_ago,
                   all_jobs, matcherVars, last_call, mailbox, unflagged>>

\* run_once reading the database file again for the jobs it keeps
RunOnceOpenReloading ==
    /\ pcC = "scraped"
    /\ new_jobs' = identify_new(current_jobs, previous_jobs)
    /\ current_jobs' = [i \in 1..Len(current_jobs) |->
                          IF is_new_job(current_jobs[i], previous_jobs)
                          THEN tag_new(current_jobs[i]) ELSE current_jobs[i]]
    /\ one_hour_ago' = now - HourTicks
    /\ all_jobs' = filtered_previous_jobs(load_previous_jobs(database), one_hour_ago')
                       \o new_jobs'
    /\ database' = TruncatedFile
    /\ pcC' = "writing"
    /\ UNCHANGED <<now, givenVars, secondVars, previous_jobs, driver, matcherVars, last_call,
                   mailbox, unflagged>>

\* run_once deciding novelty against the previous jobs that are left after the
\* retention filter
RunOnceOpenPruningFirst ==
    /\ pcC = "scraped"
    /\ one_hour_ago' = now - HourTicks
    /\ new_jobs' = identify_new(current_jobs,
                                filtered_previous_jobs(previous_jobs, one_hour_ago'))
    /\ current_jobs' = [i \in 1..Len(current_jobs) |->
                          IF is_new_job(current_jobs[i],
                                        filtered_previous_jobs(previous_jobs, one_hour_ago'))
                          THEN tag_new(current_jobs[i]) ELSE current_jobs[i]]
    /\ all_jobs' = filtered_previous_jobs(previous_jobs, one_hour_ago') \o new_jobs'
    /\ database' = TruncatedFile
    /\ pcC' = "writing"
    /\ UNCHANGED <<now, givenVars, secondVars, previous_jobs, driver, matcherVars, last_call,
                   mailbox, unflagged>>

\* run_once, second part: novelty, retention, and save_jobs up to open(.., 'w'),
\* which truncates the file.  The tag email_sent lands on the dicts of
\* current_jobs too: new_jobs holds the same objects.
RunOnceOpen ==
    /\ pcC = "scraped"
    /\ new_jobs' = identify_new(current_jobs, previous_jobs)
    /\ current_jobs' = [i \in 1..Len(current_jobs) |->
                          IF is_new_job(current_jobs[i], previous_jobs)
                          THEN tag_new(current_jobs[i]) ELSE current_jobs[i]]
    /\ one_hour_ago' = now - HourTicks
    /\ all_jobs' = filtered_previous_jobs(previous_jobs, one_hour_ago') \o new_jobs'
    /\ database' = TruncatedFile
    /\ pcC' = "writing"
    /\ UNCHANGED <<now, givenVars, secondVars, previous_jobs, driver, matcherVars, last_call,
                   mailbox, unflagged>>

\* save_jobs: json.dump(jobs, f, indent=4); run_once then returns new_jobs
RunOnceDump ==
    /\ pcC = "writing"
    /\ database' = ListFile(all_jobs)
    /\ pcC' = "done"
    /\ UNCHANGED <<now, givenVars, secondVars, previous_jobs, current_jobs, new_jobs, one_hour_ago,
                   all_jobs, driver, matcherVars, last_call, mailbox, unflagged>>

CrawlerReset ==
    /\ pcC' = "idle"
    /\ previous_jobs' = <<>>
    /\ current_jobs' = <<>>
    /\ new_jobs' = <<>>
    /\ one_hour_ago' = 0
    /\ all_jobs' = <<>>
    /\ driver' = "none"

\* the process ends: cleanup() and exit
CrawlerExit ==
    /\ pcC = "done"
    /\ CrawlerReset
    /\ UNCHANGED <<now, database, givenVars, secondVars, matcherVars, last_call, mailbox, unflagged>>

\* KeyboardInterrupt, or the process is killed, before run_once has returned
CrawlerInterrupt ==
    /\ pcC \in {"constructed", "scraped", "writing"}
    /\ CrawlerReset
    /\ UNCHANGED <<now, database, givenVars, secondVars, matcherVars, last_call, mailbox, unflagged>>

----------------------------------------------------------------------------
(* The matcher *)

NaN == "<NaN>"

\* excel_data.dropna(subset=['Employer (Petitioner) Name'])
RECURSIVE dropna(_)
dropna(names) ==
    IF names = <<>> THEN <<>>
    ELSE IF Head(names) = NaN THEN dropna(Tail(names))
         ELSE <<Head(names)>> \o dropna(Tail(names))

\* The cosine similarity, in hundredths, that the TF-IDF vectorizer over
\* character n-grams gives a posting's company against a roster name.
cosine_similarity(company_name, name) ==
    CASE company_name = "Acme Corp" /\ name = "ACME CORP" -> 100
      [] company_name = "Acme Corp" /\ name = "ACME CORPORATION" -> 72
      [] company_name = "Initech" /\ name = "INITECH LLC" -> 60
      [] company_name = "Initech" /\ name = "INITECH INC" -> 60
      [] company_name = "Globex" /\ name = "GLOBEX INC" -> 59
      [] company_name = "Globex" /\ name = "ACME CORP" -> 12
      [] OTHER -> 0

\* cosine_similarities: one score per roster row
cosine_similarities(company_name, roster) ==
    [k \in 1..Len(roster) |-> cosine_similarity(company_name, roster[k])]

\* the threshold test with > in place of >=
Is_Match_strict(score) == score > threshold

\* result_df['Is_Match']
Is_Match(score) == score >= threshold

\* the rows of matches, as indexes into the roster
matches(scores) == { k \in 1..Len(scores) : Is_Match(scores[k]) }

\* matches.sort_values(by='Similarity_Score', ascending=False).iloc[0]: the
\* sort is the default one (kind='quicksort'), which is not stable, so which
\* of the rows with the highest score comes out first is the build's choice.
best_match(scores) ==
    LET m == matches(scores)
        top == { k \in m : \A j \in m : scores[j] <= scores[k] }
    IN  IF argsort_ties = "first"
        THEN CHOOSE k \in top : \A j \in top : k <= j
        ELSE CHOOSE k \in top : \A j \in top : k >= j

\* the record loop skipping only the records whose email_sent is true
skip_sent_only(record) ==
    \/ "company" \notin DOMAIN record \/ "url" \notin DOMAIN record
    \/ (IF "email_sent" \in DOMAIN record THEN record.email_sent ELSE FALSE)

\* the three "continue" tests at the head of the record loop
skip_record(record) ==
    \/ "email_sent" \in DOMAIN record
    \/ "company" \notin DOMAIN record \/ "url" \notin DOMAIN record
    \/ (IF "email_sent" \in DOMAIN record THEN record.email_sent ELSE FALSE)

\* record.get(key, default)
get(record, key, default) == IF key \in DOMAIN record THEN record[key] ELSE default

match_entry(record, roster) ==
    LET scores == cosine_similarities(record.company, roster)
        k == best_match(scores)
    IN  [title |-> get(record, "title", "Unknown Title"),
         company |-> record.company,
         matched_company |-> roster[k],
         match_score |-> scores[k],
         url |-> record.url,
         location |-> get(record, "location", "Unknown Location")]

has_match(record, roster) ==
    matches(cosine_similarities(record.company, roster)) # {}

\* a company that is not a string: JSON null, or a number
null == "<null>"

\* vectorizer.fit_transform([company_name] + employer_names) raises on a
\* document that is not a string; nothing around the loop catches it.
raises(records) ==
    \E i \in 1..Len(records) : ~skip_record(records[i]) /\ records[i].company = null

\* a record loop that does not set the flag
leave_unmarked(record) == record

\* record["email_sent"] = True
mark_sent(record) ==
    [key \in DOMAIN record \cup {"email_sent"} |->
        IF key = "email_sent" THEN TRUE ELSE record[key]]

\* the loop "for record in json_data": the records after it, and matching_jobs
RECURSIVE record_loop(_, _)
record_loop(records, roster) ==
    IF records = <<>> THEN [data |-> <<>>, batch |-> <<>>]
    ELSE LET record == Head(records)
             rest == record_loop(Tail(records), roster)
         IN  IF skip_record(record) \/ ~has_match(record, roster)
             THEN [data |-> <<record>> \o rest.data, batch |-> rest.batch]
             ELSE [data |-> <<mark_sent(record)>> \o rest.data,
                   batch |-> <<match_entry(record, roster)>> \o rest.batch]

\* one transport call per match
transport_calls_per_match(batch) == Len(batch)

\* the identities of the jobs listed in one e-mail
mailed(batch) ==
    { <<batch[k].title, batch[k].company, batch[k].location>> : k \in 1..Len(batch) }

\* the number of calls of send_batch_email_notification the script makes
transport_calls(batch) == IF batch # <<>> THEN 1 ELSE 0

\* the database rewritten whatever the transport call returned
persist_always(sent) == TRUE

\* whether the script rewrites the database after the transport call
persist_after(sent) == sent

NoCall == [made |-> FALSE, ok |-> FALSE, batch |-> <<>>, store |-> AbsentFile,
           after_failure |-> FALSE]

\* a matcher that takes a missing or invalid database for an empty one
MatcherLoadLenient ==
    /\ pcM = "idle"
    /\ IF uscis.kind = "absent"
       THEN /\ json_data' = load_previous_jobs(database)
            /\ pcM' = "aborted"
            /\ UNCHANGED excel_data
       ELSE /\ json_data' = load_previous_jobs(database)
            /\ excel_data' = dropna(uscis.names)
            /\ pcM' = "loaded"
    /\ matching_jobs' = <<>>
    /\ smtp_calls' = 0
    /\ UNCHANGED <<now, database, givenVars, secondVars, crawlerVars, last_call, mailbox, unflagged>>

\* a matcher that takes a missing roster for an empty one
MatcherLoadWithoutRoster ==
    /\ pcM = "idle"
    /\ IF database.kind # "list"
       THEN /\ pcM' = "aborted"
            /\ UNCHANGED <<json_data, excel_data>>
       ELSE /\ json_data' = database.jobs
            /\ excel_data' = dropna(uscis.names)
            /\ pcM' = "loaded"
    /\ matching_jobs' = <<>>
    /\ smtp_calls' = 0
    /\ UNCHANGED <<now, database, givenVars, secondVars, crawlerVars, last_call, mailbox, unflagged>>

\* module start: json.load of the database, read_excel of the roster, dropna.
\* A missing or invalid database ends the script (exit()), and so does a
\* missing roster, after the database has been loaded.
MatcherLoad ==
    /\ pcM = "idle"
    /\ IF database.kind # "list"
       THEN /\ pcM' = "aborted"
            /\ UNCHANGED <<json_data, excel_data>>
       ELSE IF uscis.kind = "absent"
       THEN /\ json_data' = database.jobs
            /\ pcM' = "aborted"
            /\ UNCHANGED excel_data
       ELSE /\ json_data' = database.jobs
            /\ excel_data' = dropna(uscis.names)
            /\ pcM' = "loaded"
    /\ matching_jobs' = <<>>
    /\ smtp_calls' = 0
    /\ UNCHANGED <<now, database, givenVars, secondVars, crawlerVars, last_call, mailbox, unflagged>>

\* a record loop that writes the flags to the file as it sets them
MatcherLoopSaving ==
    /\ pcM = "loaded"
    /\ LET r == record_loop(json_data, excel_data)
       IN  /\ json_data' = r.data
           /\ matching_jobs' = r.batch
           /\ database' = ListFile(r.data)
    /\ pcM' = "matched"
    /\ UNCHANGED <<now, givenVars, secondVars, crawlerVars, excel_data, smtp_calls,
                   last_call, mailbox, unflagged>>

\* the record loop: scores, best match, matching_jobs, flags set in memory.
\* An exception of the vectorizer ends the script with a traceback; what the
\* loop had built in memory by then is gone with the process.
MatcherLoop ==
    /\ pcM = "loaded"
    /\ IF raises(json_data)
       THEN /\ pcM' = "aborted"
            /\ UNCHANGED <<json_data, matching_jobs>>
       ELSE LET r == record_loop(json_data, excel_data)
            IN  /\ json_data' = r.data
                /\ matching_jobs' = r.batch
                /\ pcM' = "matched"
    /\ UNCHANGED <<now, database, givenVars, secondVars, crawlerVars, excel_data, smtp_calls,
                   last_call, mailbox, unflagged>>

\* "if matching_jobs:" and the call of send_batch_email_notification, which
\* returns True when the SMTP server took the message and False on any error
MatcherSend ==
    /\ pcM = "matched"
    /\ IF transport_calls(matching_jobs) = 0
       THEN /\ pcM' = "done"
            /\ UNCHANGED <<smtp_calls, last_call, mailbox, unflagged>>
       ELSE \E sent \in BOOLEAN :
            /\ smtp_calls' = smtp_calls + transport_calls(matching_jobs)
            /\ last_call' = [made |-> TRUE, ok |-> sent, batch |-> matching_jobs,
                             store |-> database,
                             after_failure |-> /\ last_call.made
                                               /\ ~last_call.ok
                                               /\ last_call.store = database]
            /\ mailbox' = IF sent THEN mailbox \cup mailed(matching_jobs) ELSE mailbox
            /\ unflagged' = IF sent THEN unflagged \cup mailed(matching_jobs)
                            ELSE unflagged
            /\ pcM' = IF persist_after(sent) THEN "persist" ELSE "done"
    /\ UNCHANGED <<now, database, givenVars, secondVars, crawlerVars, json_data, excel_data,
                   matching_jobs>>

\* open(json_file_path, 'w'): the file is truncated
MatcherOpen ==
    /\ pcM = "persist"
    /\ database' = TruncatedFile
    /\ pcM' = "writing"
    /\ UNCHANGED <<now, givenVars, secondVars, crawlerVars, json_data, excel_data, matching_jobs,
                   smtp_calls, last_call, mailbox, unflagged>>

\* json.dump(json_data, file, indent=4)
MatcherDump ==
    /\ pcM = "writing"
    /\ database' = ListFile(json_data)
    /\ unflagged' = unflagged \ mailed(matching_jobs)
    /\ pcM' = "done"
    /\ UNCHANGED <<now, givenVars, secondVars, crawlerVars, json_data, excel_data, matching_jobs,
                   smtp_calls, last_call, mailbox>>

MatcherReset ==
    /\ pcM' = "idle"
    /\ json_data' = <<>>
    /\ excel_data' = <<>>
    /\ matching_jobs' = <<>>
    /\ smtp_calls' = 0

\* the script ends, after its last statement, an exit() or a traceback
MatcherExit ==
    /\ pcM \in {"done", "aborted"}
    /\ MatcherReset
    /\ UNCHANGED <<now, database, givenVars, secondVars, crawlerVars, last_call, mailbox, unflagged>>

\* the script is killed before its last statement
MatcherInterrupt ==
    /\ pcM \in {"loaded", "matched", "persist", "writing"}
    /\ MatcherReset
    /\ UNCHANGED <<now, database, givenVars, secondVars, crawlerVars, last_call, mailbox, unflagged>>

----------------------------------------------------------------------------
(* A second run of the matcher script, started while the first one runs *)

SecondLoad ==
    /\ pcM2 = "idle"
    /\ IF database.kind # "list"
       THEN /\ pcM2' = "aborted"
            /\ UNCHANGED json_data2
       ELSE IF uscis.kind = "absent"
       THEN /\ json_data2' = database.jobs
            /\ pcM2' = "aborted"
       ELSE /\ json_data2' = database.jobs
            /\ pcM2' = "loaded"
    /\ matching_jobs2' = <<>>
    /\ sent2' = "none"
    /\ UNCHANGED <<now, database, givenVars, crawlerVars, matcherVars, last_call, mailbox,
                   unflagged>>

SecondLoop ==
    /\ pcM2 = "loaded"
    /\ IF raises(json_data2)
       THEN /\ pcM2' = "aborted"
            /\ UNCHANGED <<json_data2, matching_jobs2>>
       ELSE LET r == record_loop(json_data2, dropna(uscis.names))
            IN  /\ json_data2' = r.data
                /\ matching_jobs2' = r.batch
                /\ pcM2' = "matched"
    /\ UNCHANGED <<now, database, givenVars, crawlerVars, matcherVars, last_call, mailbox,
                   unflagged, sent2>>

SecondSend ==
    /\ pcM2 = "matched"
    /\ IF transport_calls(matching_jobs2) = 0
       THEN /\ pcM2' = "done"
            /\ UNCHANGED <<sent2, last_call, mailbox, unflagged>>
       ELSE \E sent \in BOOLEAN :
            /\ sent2' = IF sent THEN "ok" ELSE "failed"
            /\ last_call' = [made |-> TRUE, ok |-> sent, batch |-> matching_jobs2,
                             store |-> database,
                             after_failure |-> /\ last_call.made
                                               /\ ~last_call.ok
                                               /\ last_call.store = database]
            /\ mailbox' = IF sent THEN mailbox \cup mailed(matching_jobs2) ELSE mailbox
            /\ unflagged' = IF sent THEN unflagged \cup mailed(matching_jobs2)
                            ELSE unflagged
            /\ pcM2' = IF persist_after(sent) THEN "persist" ELSE "done"
    /\ UNCHANGED <<now, database, givenVars, crawlerVars, matcherVars, json_data2,
                   matching_jobs2>>

SecondOpen ==
    /\ pcM2 = "persist"
    /\ database' = TruncatedFile
    /\ pcM2' = "writing"
    /\ UNCHANGED <<now, givenVars, crawlerVars, matcherVars, last_call, mailbox, unflagged,
                   json_data2, matching_jobs2, sent2>>

SecondDump ==
    /\ pcM2 = "writing"
    /\ database' = ListFile(json_data2)
    /\ unflagged' = unflagged \ mailed(matching_jobs2)
    /\ pcM2' = "done"
    /\ UNCHANGED <<now, givenVars, crawlerVars, matcherVars, last_call, mailbox,
                   json_data2, matching_jobs2, sent2>>

----------------------------------------------------------------------------
(* The environment *)

\* Time passes between two readings of the clock.  Only scrape_linkedin_jobs
\* and the retention filter of run_once read the clock, so the steps of time
\* are taken right before those readings.
Tick ==
    /\ pcC \in {"constructed", "scraped"}
    /\ \E t \in Instants : t > now /\ now' = t
    /\ UNCHANGED <<database, givenVars, secondVars, crawlerVars, matcherVars, last_call, mailbox, unflagged>>

\* Records a database file can hold before the first run.  Records written by
\* an earlier version of the crawler carry no email_sent field; the matcher
\* tests for the field and for company and url.
Legacy(t, c, l, u) ==
    [title |-> t, company |-> c, location |-> l, url |-> u, scraped_date |-> 0]

LegacyAcme == Legacy("Data Engineer", "Acme Corp", "NY", "u1")
LegacyInitech == Legacy("ETL Developer", "Initech", "TX", "u4")
LegacyGlobex == Legacy("Data Engineer", "Globex", "NY", "u5")
LegacyNoUrl == [title |-> "Data Engineer", company |-> "Acme Corp",
                location |-> "TX", scraped_date |-> 0]

\* a record whose company is not a string
LegacyNull == Legacy("Data Engineer", null, "NY", "u7")

LegacyDatabase == ListFile(<<LegacyGlobex, LegacyAcme, LegacyNoUrl, LegacyInitech>>)

InitialDatabases == { AbsentFile, LegacyDatabase }

AbsentRoster == [kind |-> "absent", names |-> <<>>]

Roster == [kind |-> "xlsx",
           names |-> <<"GLOBEX INC", "INITECH LLC", "ACME CORPORATION", NaN, "ACME CORP",
                       "INITECH INC">>]

Rosters == { Roster }

SmallListing == CHOOSE cards \in Listings : Cardinality(cards) = 2

\* What a behaviour starts from: each database with each listing, and, with
\* the small listing, a build whose sort puts the last of tied rows first, a
\* missing roster, and a database with a malformed record before a sound one.
Scenarios ==
    { [database |-> d, listing |-> l, uscis |-> r, argsort_ties |-> "first"] :
        d \in InitialDatabases, l \in Listings, r \in Rosters }
    \cup { [database |-> LegacyDatabase, listing |-> SmallListing, uscis |-> Roster,
             argsort_ties |-> "last"],
           [database |-> LegacyDatabase, listing |-> SmallListing, uscis |-> AbsentRoster,
             argsort_ties |-> "first"],
           [database |-> ListFile(<<LegacyNull, LegacyAcme>>), listing |-> SmallListing,
             uscis |-> Roster, argsort_ties |-> "first"] }

Init ==
    /\ now = 0
    /\ \E s \in Scenarios :
          /\ database = s.database
          /\ listing = s.listing
          /\ uscis = s.uscis
          /\ argsort_ties = s.argsort_ties
    /\ pcC = "idle"
    /\ previous_jobs = <<>>
    /\ current_jobs = <<>>
    /\ new_jobs = <<>>
    /\ one_hour_ago = 0
    /\ all_jobs = <<>>
    /\ driver = "none"
    /\ pcM = "idle"
    /\ json_data = <<>>
    /\ excel_data = <<>>
    /\ matching_jobs = <<>>
    /\ smtp_calls = 0
    /\ last_call = NoCall
    /\ mailbox = {}
    /\ unflagged = {}
    /\ pcM2 = "idle"
    /\ json_data2 = <<>>
    /\ matching_jobs2 = <<>>
    /\ sent2 = "none"

\* Runs do not overlap: a program starts only while the other one is not running.
CrawlerStart == pcM = "idle" /\ CrawlerConstruct
MatcherStart == pcC = "idle" /\ MatcherLoad

Next ==
    \/ CrawlerStart
    \/ Scrape
    \/ RunOnceOpen
    \/ RunOnceDump
    \/ CrawlerExit
    \/ CrawlerInterrupt
    \/ MatcherStart
    \/ MatcherLoop
    \/ MatcherSend
    \/ MatcherOpen
    \/ MatcherDump
    \/ MatcherExit
    \/ MatcherInterrupt
    \/ Tick

Spec == Init /\ [][Next]_vars

\* Runs that overlap: nothing keeps a program from starting while another one
\* runs, whether it is the crawler, the matcher or a second matcher.  One run
\* of each is followed to its end.
InitOverlap ==
    /\ Init
    /\ database = LegacyDatabase
    /\ listing = SmallListing
    /\ uscis = Roster
    /\ argsort_ties = "first"

SecondStart == pcM # "idle" /\ SecondLoad

NextOverlap ==
    \/ CrawlerConstruct
    \/ Scrape
    \/ RunOnceOpen
    \/ RunOnceDump
    \/ MatcherLoad
    \/ MatcherLoop
    \/ MatcherSend
    \/ MatcherOpen
    \/ MatcherDump
    \/ SecondStart
    \/ SecondLoop
    \/ SecondSend
    \/ SecondOpen
    \/ SecondDump
    \/ Tick

SpecOverlap == InitOverlap /\ [][NextOverlap]_vars

----------------------------------------------------------------------------
(* Properties *)

\* a record is the one a batch entry was built from
referenced(record, batch) ==
    /\ "company" \in DOMAIN record
    /\ "url" \in DOMAIN record
    /\ \E k \in 1..Len(batch) :
          /\ batch[k].company = record.company
          /\ batch[k].url = record.url
          /\ batch[k].title = record.title
          /\ batch[k].location = record.location

\* some roster entry scores at least the threshold against the record's company
accepted(record, roster) ==
    \E k \in 1..Len(roster) : cosine_similarity(record.company, roster[k]) >= threshold

\* a transport call is made in this step
CallMade == smtp_calls' > smtp_calls

\* C1: a record the crawler persisted as pending (email_sent = false) whose
\* company scores at least the threshold against a roster entry is in the batch
\* of the next matcher run.
C1_PendingMatchIsSent ==
    pcM = "matched" /\ database.kind = "list" =>
        \A i \in 1..Len(database.jobs) :
            LET record == database.jobs[i]
            IN  /\ "email_sent" \in DOMAIN record
                /\ record.email_sent = FALSE
                /\ accepted(record, excel_data)
                => referenced(record, matching_jobs)

\* C2: a failed transport call leaves the database file as it was, no later
\* step of that run writes it, the next run over the unchanged file sends the
\* same batch again, and when that call succeeds the run persists the flags.
C2_FailedSendRetried ==
    /\ [][/\ (CallMade /\ ~last_call'.ok => database' = database)
          /\ (pcM \in {"persist", "writing", "done"} /\ database' # database
                => last_call.ok)
          /\ (/\ pcM = "matched" /\ pcM' \in {"persist", "done"}
              /\ last_call.made /\ ~last_call.ok /\ last_call.store = database
              => /\ CallMade
                 /\ last_call'.batch = last_call.batch)]_vars
    /\ [](pcM = "done" /\ smtp_calls = 1 /\ ~last_call.ok
            => database = last_call.store)
    /\ [](pcM = "done" /\ smtp_calls = 1 /\ last_call.ok /\ last_call.after_failure
            => /\ database.kind = "list"
               /\ \A k \in 1..Len(last_call.batch) :
                    \E i \in 1..Len(database.jobs) :
                        /\ referenced(database.jobs[i], last_call.batch)
                        /\ database.jobs[i].url = last_call.batch[k].url
                        /\ "email_sent" \in DOMAIN database.jobs[i]
                        /\ database.jobs[i].email_sent = TRUE)

\* C2 witness: a run has finished whose call succeeded after a failed call
\* over the same store, and the store now carries the flags.
C2_Witness ==
    /\ pcM = "done" /\ smtp_calls = 1
    /\ last_call.ok /\ last_call.after_failure
    /\ database.kind = "list"
    /\ \E i \in 1..Len(database.jobs) :
          /\ referenced(database.jobs[i], last_call.batch)
          /\ "email_sent" \in DOMAIN database.jobs[i]
          /\ database.jobs[i].email_sent = TRUE
    /\ \A i \in 1..Len(last_call.store.jobs) :
          "email_sent" \notin DOMAIN last_call.store.jobs[i]

C4_NoDuplicateIdentity ==
    database.kind = "list" =>
        \A i, j \in 1..Len(database.jobs) :
            identity(database.jobs[i]) = identity(database.jobs[j]) => i = j

\* C5 as claimed: the database file is written only by a run that has
\* completed fetch, match and notify.
C5_WrittenOnlyAfterNotify ==
    [][database' # database => pcM \in {"persist", "writing"} /\ last_call.made]_vars

\* C5 as amended: each program writes the database file only as its last
\* step, the crawler after fetch and novelty filtering, the matcher after its
\* transport call succeeded; until then the file is as the program loaded it,
\* so an interruption before the write leaves it as it was.
C5_WrittenOnlyAtEndOfEachProgram ==
    /\ [][database' # database =>
            \/ /\ pcC \in {"scraped", "writing"}
               /\ pcC' \in {"writing", "done"}
            \/ /\ pcM \in {"persist", "writing"}
               /\ pcM' \in {"writing", "done"}
               /\ smtp_calls = 1 /\ last_call.made /\ last_call.ok
               /\ last_call.batch = matching_jobs]_vars
    /\ [](pcC \in {"constructed", "scraped"}
            => load_previous_jobs(database) = previous_jobs)
    /\ [](pcM \in {"loaded", "matched", "persist"}
            => /\ database.kind = "list"
               /\ Len(database.jobs) = Len(json_data)
               /\ \A i \in 1..Len(json_data) :
                    \/ json_data[i] = database.jobs[i]
                    \/ /\ pcM # "loaded"
                       /\ "email_sent" \notin DOMAIN database.jobs[i]
                       /\ json_data[i] = database.jobs[i] @@ ("email_sent" :> TRUE))

\* C5 witness: the crawler has written new records to the file although no
\* transport call was ever made.
C5_Witness ==
    /\ pcC = "done"
    /\ new_jobs # <<>>
    /\ database = ListFile(all_jobs)
    /\ ~last_call.made

\* C6: after a successful transport call the store the run persists holds
\* email_sent = true for every record a match refers to, and every other
\* record exactly as it was loaded.
C6_SuccessFlagsExactlyTheMatched ==
    pcM = "done" /\ smtp_calls = 1 /\ last_call.ok =>
        /\ database.kind = "list"
        /\ Len(database.jobs) = Len(last_call.store.jobs)
        /\ \A i \in 1..Len(database.jobs) :
              LET loaded == last_call.store.jobs[i]
                  saved == database.jobs[i]
              IN  IF referenced(loaded, last_call.batch)
                  THEN /\ DOMAIN saved = DOMAIN loaded \cup {"email_sent"}
                       /\ saved.email_sent = TRUE
                       /\ \A key \in DOMAIN loaded \ {"email_sent"} :
                              saved[key] = loaded[key]
                  ELSE saved = loaded

\* C6 witness: a successful run has persisted a store with a flagged matched
\* record next to an unmatched record that still has no flag.
C6_Witness ==
    /\ pcM = "done" /\ smtp_calls = 1 /\ last_call.ok
    /\ database.kind = "list"
    /\ \E i, j \in 1..Len(database.jobs) :
          /\ referenced(last_call.store.jobs[i], last_call.batch)
          /\ database.jobs[i].email_sent = TRUE
          /\ ~referenced(last_call.store.jobs[j], last_call.batch)
          /\ "email_sent" \notin DOMAIN database.jobs[j]

\* C7: after run_once a record of the previous store is in the persisted
\* store iff its scraped_date is not before now minus one hour.
C7_RetentionBoundary ==
    /\ [][pcC = "scraped" /\ pcC' = "writing"
            => one_hour_ago' = now - Hour * TicksPerSecond]_vars
    /\ [](pcC = "done" =>
            /\ database.kind = "list"
            /\ \A i \in 1..Len(previous_jobs) :
                  (\E j \in 1..Len(database.jobs) : database.jobs[j] = previous_jobs[i])
                  <=> previous_jobs[i].scraped_date * TicksPerSecond >= one_hour_ago
            /\ \A j \in 1..Len(database.jobs) :
                  \/ \E i \in 1..Len(previous_jobs) : database.jobs[j] = previous_jobs[i]
                  \/ \E k \in 1..Len(new_jobs) : database.jobs[j] = new_jobs[k])

\* C7 witness: run_once has kept a record scraped exactly one hour before, and
\* that record is one the matcher had flagged.
C7_Witness ==
    /\ pcC = "done"
    /\ one_hour_ago >= 0
    /\ \E i \in 1..Len(previous_jobs) :
          /\ previous_jobs[i].scraped_date * TicksPerSecond = one_hour_ago
          /\ "email_sent" \in DOMAIN previous_jobs[i]
          /\ previous_jobs[i].email_sent = TRUE
          /\ \E j \in 1..Len(database.jobs) : database.jobs[j] = previous_jobs[i]

\* C8: the new-set of run_once is exactly the candidates no previous record
\* equals on title, company and location (compared as they are), in fetch
\* order, each tagged email_sent = false; the other candidates get no tag.
C8_NewIffNoIdentityMatch ==
    pcC \in {"writing", "done"} =>
        LET unseen(job) ==
                \A j \in 1..Len(previous_jobs) :
                    \/ job.title # previous_jobs[j].title
                    \/ job.company # previous_jobs[j].company
                    \/ job.location # previous_jobs[j].location
        IN  /\ new_jobs = SelectSeq(current_jobs, unseen)
            /\ \A k \in 1..Len(new_jobs) :
                  /\ "email_sent" \in DOMAIN new_jobs[k]
                  /\ new_jobs[k].email_sent = FALSE
            /\ \A i \in 1..Len(current_jobs) :
                  ~unseen(current_jobs[i]) => "email_sent" \notin DOMAIN current_jobs[i]

\* C8 witness: one run_once met a candidate that a previous record equals on
\* all three fields and a candidate that differs from it in location only.
C8_Witness ==
    /\ pcC = "done"
    /\ \E i, k \in 1..Len(current_jobs), j \in 1..Len(previous_jobs) :
          /\ identity(current_jobs[i]) = identity(previous_jobs[j])
          /\ "email_sent" \notin DOMAIN current_jobs[i]
          /\ current_jobs[k].title = previous_jobs[j].title
          /\ current_jobs[k].company = previous_jobs[j].company
          /\ current_jobs[k].location # previous_jobs[j].location
          /\ \E n \in 1..Len(new_jobs) : new_jobs[n] = current_jobs[k]

\* C9: matching_jobs holds one entry for each processed record that some
\* roster entry scores at least the threshold against, and none for the
\* others; the entry names a roster entry with the highest score of the roster.
C9_MatchIffThresholdAndBest ==
    pcM = "matched" /\ database.kind = "list" =>
        LET processed == { i \in 1..Len(database.jobs) :
                              /\ "email_sent" \notin DOMAIN database.jobs[i]
                              /\ "company" \in DOMAIN database.jobs[i]
                              /\ "url" \in DOMAIN database.jobs[i] }
            hits == { i \in processed : accepted(database.jobs[i], excel_data) }
        IN  /\ Len(matching_jobs) = Cardinality(hits)
            /\ \A i \in hits : referenced(database.jobs[i], matching_jobs)
            /\ \A k \in 1..Len(matching_jobs) :
                  /\ \E i \in hits : referenced(database.jobs[i], <<matching_jobs[k]>>)
                  /\ matching_jobs[k].match_score >= threshold
                  /\ \E r \in 1..Len(excel_data) :
                        /\ excel_data[r] = matching_jobs[k].matched_company
                        /\ cosine_similarity(matching_jobs[k].company, excel_data[r])
                              = matching_jobs[k].match_score
                  /\ \A r \in 1..Len(excel_data) :
                        cosine_similarity(matching_jobs[k].company, excel_data[r])
                            <= matching_jobs[k].match_score

\* C9 witness: a record loop produced a match whose score is exactly the
\* threshold, a match whose roster entry is not the first one above the
\* threshold, and no match for a record whose best score is below it.
C9_Witness ==
    /\ pcM = "matched"
    /\ \E k \in 1..Len(matching_jobs) : matching_jobs[k].match_score = threshold
    /\ \E k \in 1..Len(matching_jobs), r \in 1..Len(excel_data) :
          /\ cosine_similarity(matching_jobs[k].company, excel_data[r]) >= threshold
          /\ cosine_similarity(matching_jobs[k].company, excel_data[r])
                < matching_jobs[k].match_score
    /\ \E i \in 1..Len(json_data) :
          /\ ~skip_record(json_data[i])
          /\ ~referenced(json_data[i], matching_jobs)

\* C10: a matcher run makes one transport call, carrying all its matches, when
\* it has matches, and none when it has none.
C10_OneBatchedCall ==
    /\ smtp_calls <= 1
    /\ pcM \in {"persist", "writing", "done"} =>
          /\ smtp_calls = (IF matching_jobs = <<>> THEN 0 ELSE 1)
          /\ smtp_calls = 1 => last_call.made /\ last_call.batch = matching_jobs

\* C10 witness: a finished run made one call whose batch holds two matches.
C10_Witness ==
    /\ pcM = "done"
    /\ smtp_calls = 1
    /\ Len(matching_jobs) = 2
    /\ last_call.batch = matching_jobs

\* C11 as claimed: a record loop that meets a processed record whose company
\* is not a string goes on to the end: that record stays as it was loaded and
\* gets no entry, and every other processed record that a roster entry
\* accepts has its entry in matching_jobs.
C11_MalformedRecordSkipped ==
    [][pcM = "loaded" /\ pcM' \in {"matched", "aborted"} /\ raises(json_data)
         => /\ pcM' = "matched"
            /\ \A i \in 1..Len(json_data) :
                  IF skip_record(json_data[i]) THEN json_data'[i] = json_data[i]
                  ELSE IF json_data[i].company = null
                  THEN /\ json_data'[i] = json_data[i]
                       /\ ~referenced(json_data[i], matching_jobs')
                  ELSE accepted(json_data[i], excel_data)
                         => referenced(json_data[i], matching_jobs')]_vars

\* C12: when the fetch of a run_once has failed, current_jobs and new_jobs are
\* empty and the file run_once leaves holds exactly the previous jobs that
\* are within the retention window, in their order and as they were loaded.
C12_FailedFetchKeepsPrunedStore ==
    /\ pcC \in {"scraped", "writing", "done"} /\ driver = "none" => current_jobs = <<>>
    /\ pcC \in {"writing", "done"} /\ driver = "none" => new_jobs = <<>>
    /\ pcC = "done" /\ driver = "none" =>
          /\ database.kind = "list"
          /\ database.jobs =
                SelectSeq(previous_jobs,
                          LAMBDA job : job.scraped_date * TicksPerSecond >= one_hour_ago)

\* C12 witness: a run_once whose fetch failed has written a store that keeps
\* some of the previous jobs and has dropped others.
C12_Witness ==
    /\ pcC = "done" /\ driver = "none"
    /\ database.kind = "list"
    /\ database.jobs # <<>>
    /\ Len(database.jobs) < Len(previous_jobs)

\* C13 as claimed: both programs take an absent or invalid database file for
\* the empty list and go on: the crawler is constructed with previous_jobs
\* empty, the matcher goes on to its record loop with json_data empty.
C13_LoadNeverAborts ==
    [][/\ (pcC = "idle" /\ pcC' = "constructed"
            => previous_jobs' = IF database.kind = "list" THEN database.jobs ELSE <<>>)
       /\ (pcM = "idle" /\ pcM' # "idle" /\ uscis.kind # "absent"
            => /\ pcM' = "loaded"
               /\ json_data' = IF database.kind = "list" THEN database.jobs
                                ELSE <<>>)]_vars

\* C13 as amended: the crawler takes an absent or invalid database file for
\* the empty list and goes on; the matcher ends at once on such a file: it has
\* loaded nothing, makes no transport call and leaves the file as it is.
C13_CrawlerLoadsEmptyMatcherExits ==
    /\ [][/\ (pcC = "idle" /\ pcC' = "constructed"
                => previous_jobs' = IF database.kind = "list" THEN database.jobs
                                    ELSE <<>>)
           /\ (pcM = "idle" /\ pcM' # "idle" /\ database.kind # "list"
                => pcM' = "aborted" /\ json_data' = <<>> /\ excel_data' = <<>>)
           /\ (pcM = "idle" /\ pcM' # "idle" /\ database.kind = "list"
                => json_data' = database.jobs)
           /\ (pcM = "aborted" => database' = database /\ pcM' \in {"aborted", "idle"})]_vars
    /\ [](pcM = "aborted" => smtp_calls = 0 /\ matching_jobs = <<>>)

\* C13 witness: the matcher has ended on a file that a killed crawler left
\* truncated, with the roster in place.
C13_Witness ==
    /\ pcM = "aborted"
    /\ database.kind = "corrupt"
    /\ uscis.kind = "xlsx"

\* C14 as claimed: while the roster file is missing, no step writes the
\* database file and no transport call is made.
C14_NoWriteWithoutRoster ==
    [][uscis.kind = "absent" => database' = database /\ ~CallMade]_vars

\* C14 as amended: while the roster file is missing, a matcher run ends before
\* its record loop, so it makes no transport call and never writes the
\* database file; the writes that do happen are those of run_once, which does
\* not read the roster.
C14_MatcherAbortsWithoutRoster ==
    /\ [](uscis.kind = "absent"
            => /\ pcM \in {"idle", "aborted"}
               /\ smtp_calls = 0 /\ ~last_call.made /\ matching_jobs = <<>>)
    /\ [][uscis.kind = "absent" /\ database' # database
            => /\ pcM = "idle"
               /\ pcC \in {"scraped", "writing"}
               /\ pcC' \in {"writing", "done"}]_vars

\* C14 witness: with the roster missing the matcher has ended on a database
\* file that run_once has written a pending record to.
C14_Witness ==
    /\ uscis.kind = "absent"
    /\ pcM = "aborted"
    /\ database.kind = "list"
    /\ json_data = database.jobs
    /\ \E i \in 1..Len(database.jobs) :
          /\ "email_sent" \in DOMAIN database.jobs[i]
          /\ database.jobs[i].email_sent = FALSE

\* C15 as claimed: every write leaves the database file holding a complete
\* list, the old one or the new one.
C15_SaveIsAtomic ==
    [][database' # database => database'.kind = "list"]_vars

\* C16 as claimed: the roster entry a match names is the first entry, in
\* roster order, that has the highest score.
C16_TieGoesToFirstRosterEntry ==
    pcM = "matched" =>
        \A k \in 1..Len(matching_jobs) :
            \E r \in 1..Len(excel_data) :
                /\ excel_data[r] = matching_jobs[k].matched_company
                /\ cosine_similarity(matching_jobs[k].company, excel_data[r])
                      = matching_jobs[k].match_score
                /\ \A q \in 1..(r - 1) :
                      cosine_similarity(matching_jobs[k].company, excel_data[q])
                          < matching_jobs[k].match_score

\* C17: when runs overlap, the file run_once leaves is built from previous_jobs
\* as loaded at construction, whatever a matcher has written since, so a flag
\* written in between is lost; and a matcher's transport call carries the
\* matches of the records as that run loaded them, whatever another run has
\* sent since, so two runs that loaded the same file send the same match.
C17_OverlappingRunsOverwriteAndResend ==
    /\ [][pcC = "writing" /\ pcC' = "done"
            => /\ database'.kind = "list"
               /\ database'.jobs =
                     SelectSeq(previous_jobs,
                               LAMBDA job :
                                   job.scraped_date * TicksPerSecond >= one_hour_ago)
                     \o new_jobs]_vars
    /\ [][/\ (pcM = "matched" /\ pcM' # "matched" /\ matching_jobs # <<>>
                => last_call'.made /\ last_call'.batch = matching_jobs)
           /\ (pcM2 = "matched" /\ pcM2' # "matched" /\ matching_jobs2 # <<>>
                => last_call'.made /\ last_call'.batch = matching_jobs2)]_vars
    /\ [][/\ (pcM = "loaded" /\ pcM' = "matched"
                => \A i \in 1..Len(json_data) :
                      ~skip_record(json_data[i]) /\ accepted(json_data[i], excel_data)
                        => referenced(json_data[i], matching_jobs'))
           /\ (pcM2 = "loaded" /\ pcM2' = "matched"
                => \A i \in 1..Len(json_data2) :
                      (~skip_record(json_data2[i])
                         /\ accepted(json_data2[i], dropna(uscis.names)))
                        => referenced(json_data2[i], matching_jobs2'))]_vars

\* C17 witness: the crawler loaded the file, two matcher runs loaded it too,
\* the second one e-mailed its matches and wrote the flags, the first one
\* e-mailed the same matches, and the crawler then saved: the file holds the
\* e-mailed record without a flag.
C17_Witness ==
    /\ pcC = "done"
    /\ database = ListFile(all_jobs)
    /\ pcM2 = "done" /\ sent2 = "ok"
    /\ pcM = "persist"
    /\ matching_jobs # <<>>
    /\ matching_jobs2 = matching_jobs
    /\ \E i \in 1..Len(json_data2) :
          /\ referenced(json_data2[i], matching_jobs2)
          /\ json_data2[i].email_sent = TRUE
          /\ identity(json_data2[i]) \in mailbox
          /\ \E j \in 1..Len(previous_jobs), d \in 1..Len(database.jobs) :
                /\ identity(previous_jobs[j]) = identity(json_data2[i])
                /\ database.jobs[d] = previous_jobs[j]
                /\ "email_sent" \notin DOMAIN database.jobs[d]

\* C18: run_once decides novelty against previous_jobs as loaded, before the
\* retention filter: a candidate with the identity of a previous record is
\* not new, and when every previous record of that identity is older than the
\* window the file run_once leaves holds no record of that identity; a
\* candidate whose identity no previous record has, as in the run after that
\* one, is new and in the file with email_sent = false.
C18_NoveltyBeforePruning ==
    pcC = "done" =>
        \A i \in 1..Len(current_jobs) :
            LET same == { j \in 1..Len(previous_jobs) :
                            identity(previous_jobs[j]) = identity(current_jobs[i]) }
                kept == { d \in 1..Len(database.jobs) :
                            identity(database.jobs[d]) = identity(current_jobs[i]) }
            IN  /\ database.kind = "list"
                /\ same # {} =>
                      \A n \in 1..Len(new_jobs) :
                          identity(new_jobs[n]) # identity(current_jobs[i])
                /\ ( /\ same # {}
                     /\ \A j \in same :
                           previous_jobs[j].scraped_date * TicksPerSecond < one_hour_ago )
                      => kept = {}
                /\ same = {} =>
                      /\ kept # {}
                      /\ \A d \in kept :
                            /\ "email_sent" \in DOMAIN database.jobs[d]
                            /\ database.jobs[d].email_sent = FALSE

\* C18 witness: run_once has fetched a posting whose only previous record is
\* older than the window, and the file it has written holds previous records
\* no more and no record of that posting.
C18_Witness ==
    /\ pcC = "done"
    /\ database.kind = "list"
    /\ \E i \in 1..Len(current_jobs), j \in 1..Len(previous_jobs) :
          /\ identity(previous_jobs[j]) = identity(current_jobs[i])
          /\ previous_jobs[j].scraped_date * TicksPerSecond < one_hour_ago
          /\ "email_sent" \notin DOMAIN current_jobs[i]
          /\ \A d \in 1..Len(database.jobs) :
                identity(database.jobs[d]) # identity(current_jobs[i])

====
